---- MODULE Spec2Model ----
(***************************************************************************)
(* Model of the APImetrics import action (src/src/index.js): one run of    *)
(* the pipeline  read configuration -> acquire document (ytt render or     *)
(* file read) -> parse -> optional schema validation -> upload.            *)
(*                                                                         *)
(* Text is modelled as a sequence of tokens.  A token is a one-character   *)
(* string wherever the code looks at characters (trim, startsWith,         *)
(* endsWith, toLowerCase, split) and a longer string for the fixed         *)
(* literals the code only concatenates or compares as a whole.             *)
(***************************************************************************)
EXTENDS Integers, Sequences, FiniteSets, TLC

VARIABLES
    entry,        \* the program file that runs: "src/index.js" or "dist/index.js"
    env,          \* process.env: a function from the keys that are set to text
    pc,           \* position of run()
    ops,          \* external operations performed so far, in order
    fileInput, templateInput, valuesInput, token, validate, schemaUrl,
    yttVersion, yttArgs,                 \* locals of run() set by the configuration read
    yttExists,                           \* fileExists("ytt"): "unchecked", "yes" or "no"
    platform, arch,                      \* what resolveYttAsset read from os, "unread" before
    yttBin, yttCmd,                      \* tool path and argument list of the render subprocess
    downloadUrl,                         \* URL of the release asset GET
    rawContent, sourceHint,              \* locals of run()
    parsedAs,                            \* parser loadDocument chose: "none", "json", "yaml"
    data, format,                        \* result of loadDocument
    errors,                              \* validate.errors, empty before the validator ran
    validatorModule,                     \* module validateSchema built its validator from
    schemaGetUrl,                        \* URL of the schema GET
    post,                                \* the upload POST request as issued
    downloadResp, schemaResp, uploadResp,  \* the responses to the three requests
    resultText,                          \* value returned by uploadDocument
    stdoutLog, stderrLog, exitCode       \* console.log, console.error, process.exitCode

vars == << entry, env, pc, ops, fileInput, templateInput, valuesInput, token, validate,
           schemaUrl, yttVersion, yttArgs, yttExists, platform, arch, yttBin, yttCmd,
           downloadUrl, rawContent, sourceHint, parsedAs, data, format, errors,
           validatorModule, schemaGetUrl, post, downloadResp, schemaResp, uploadResp,
           resultText, stdoutLog, stderrLog, exitCode >>

(***************************************************************************)
(* Bounds of the model.                                                    *)
(***************************************************************************)
MaxViolations == 2      \* schema violations the validator may report
MaxBodyLen == 1         \* length of an HTTP response body, in characters

(***************************************************************************)
(* Text helpers (String.prototype methods the code uses).                  *)
(***************************************************************************)
Whitespace == {" ", "\n", "\t"}

RECURSIVE TrimStart(_)
TrimStart(s) ==
    IF s # << >> /\ Head(s) \in Whitespace THEN TrimStart(Tail(s)) ELSE s

RECURSIVE TrimEnd(_)
TrimEnd(s) ==
    IF s # << >> /\ s[Len(s)] \in Whitespace
    THEN TrimEnd(SubSeq(s, 1, Len(s) - 1)) ELSE s

Trim(s) == TrimEnd(TrimStart(s))

StartsWith(s, p) == Len(s) >= Len(p) /\ SubSeq(s, 1, Len(p)) = p

EndsWith(s, p) == Len(s) >= Len(p) /\ SubSeq(s, Len(s) - Len(p) + 1, Len(s)) = p

Contains(s, p) == \E i \in 0..(Len(s) - Len(p)) : SubSeq(s, i + 1, i + Len(p)) = p

LowerChar(c) ==
    CASE c = "T" -> "t" [] c = "R" -> "r" [] c = "U" -> "u" [] c = "E" -> "e"
      [] c = "Y" -> "y" [] c = "S" -> "s" [] c = "O" -> "o" [] c = "N" -> "n"
      [] c = "F" -> "f" [] c = "A" -> "a" [] c = "L" -> "l"
      [] OTHER -> c

ToLowerCase(s) == [i \in 1..Len(s) |-> LowerChar(s[i])]

\* s.split(" "): the maximal runs of non-space characters and the empty
\* strings between adjacent separators.
RECURSIVE SplitOnSpace(_, _)
SplitOnSpace(s, cur) ==
    IF s = << >> THEN << cur >>
    ELSE IF Head(s) = " " THEN << cur >> \o SplitOnSpace(Tail(s), << >>)
    ELSE SplitOnSpace(Tail(s), Append(cur, Head(s)))

RECURSIVE DropBlank(_)
DropBlank(items) ==
    IF items = << >> THEN << >>
    ELSE IF Trim(Head(items)) = << >> THEN DropBlank(Tail(items))
    ELSE << Head(items) >> \o DropBlank(Tail(items))

Truthy(s) == s # << >>

(***************************************************************************)
(* Fixed literals of the program.                                          *)
(***************************************************************************)
DefaultEndpoint == << "https://client.apimetrics.io/api/2/import" >>
DefaultSchemaUrl == << "https://client.apimetrics.io/api/2/import/schema.json" >>
DefaultYttVersion == << "v0.48.0" >>
DotJson == << ".", "j", "s", "o", "n" >>
TrueLiterals == { << "1" >>, << "t", "r", "u", "e" >>, << "y", "e", "s" >>, << "o", "n" >> }
InputError == << "Provide either 'file' or 'template'." >>

(***************************************************************************)
(* Configuration Reader.                                                   *)
(***************************************************************************)
InputKey(name) ==
    CASE name = "file" -> "INPUT_FILE"
      [] name = "template" -> "INPUT_TEMPLATE"
      [] name = "template_values" -> "INPUT_TEMPLATE_VALUES"
      [] name = "token" -> "INPUT_TOKEN"
      [] name = "validate_schema" -> "INPUT_VALIDATE_SCHEMA"
      [] name = "schema_url" -> "INPUT_SCHEMA_URL"
      [] name = "endpoint" -> "INPUT_ENDPOINT"
      [] name = "ytt_version" -> "INPUT_YTT_VERSION"
      [] name = "ytt_args" -> "INPUT_YTT_ARGS"

\* value is falsy (undefined or "") or blank
getInputThrows(name, required) ==
    LET key == InputKey(name) IN
    required /\ (key \notin DOMAIN env \/ ~Truthy(env[key]) \/ Trim(env[key]) = << >>)

getInput(name) ==
    LET key == InputKey(name) IN
    IF key \in DOMAIN env THEN env[key] ELSE << >>

MissingInput(name) == << "Missing required input: ", name >>

\* Mutant: the comparison without toLowerCase().
parseBoolean_CaseSensitive(value, defaultValue) ==
    IF value = << >> THEN defaultValue
    ELSE value \in TrueLiterals

parseBoolean(value, defaultValue) ==
    IF value = << >> THEN defaultValue
    ELSE ToLowerCase(value) \in TrueLiterals

(***************************************************************************)
(* The environment of a run: configuration values, documents, responses.   *)
(***************************************************************************)
Unset == << "<unset>" >>     \* marks a key left out of process.env

FileValues == { Unset, << "a", ".", "j", "s", "o", "n" >>, << "a", ".", "j", "s", "o", "n", ".", "y", "m", "l" >> }
TemplateValues == { Unset, << "t", ".", "j", "s", "o", "n" >>, << "t", "p", "l", "/" >> }
TokenValues == { Unset, << " " >>, << "t", "o", "k" >> }
ValidateSchemaValues ==
    { Unset, << >>, << "1" >>, << "T", "R", "U", "E" >>, << "Y", "e", "s" >>,
      << "o", "N" >>, << "f", "a", "l", "s", "e" >>, << " ", "t", "r", "u", "e" >>,
      << "o", "n", "e" >> }
\* the inputs that only override a default or pass through to a request or a
\* command line: all left out, or all given
OverrideValues ==
    { [values |-> Unset, version |-> Unset, args |-> Unset, schemaUrl |-> Unset,
       endpoint |-> Unset],
      [values |-> << "v", ".", "y", "m", "l" >>, version |-> << "v0.50.0" >>,
       args |-> << "-", "v", " ", " ", "x", "=", "1" >>,
       schemaUrl |-> << "https://example.test/schema.json" >>,
       endpoint |-> << "https://example.test/import" >>] }

MakeEnv(vals) == [k \in {x \in DOMAIN vals : vals[x] # Unset} |-> vals[k]]

EntryPoints == { "src/index.js", "dist/index.js" }

Platforms == { "darwin", "linux", "win32" }
Archs == { "x64", "arm64", "ia32" }

\* Documents the file or the render tool may hold: the text, and what
\* JSON.parse and yaml.load make of it ("error": the parser throws).
Docs ==
    { [text |-> << "{", "\"a\"", ":", "1", "}" >>,      json |-> "a1",    yaml |-> "a1"],
      [text |-> << " ", "{", "}", "\n" >>,              json |-> "empty", yaml |-> "empty"],
      [text |-> << "a", ":", " ", "1" >>,               json |-> "error", yaml |-> "a1"],
      [text |-> << "{", "a", ":", " ", "1", "}" >>,     json |-> "error", yaml |-> "a1"],
      [text |-> << "[", "1", "]" >>,                    json |-> "list1", yaml |-> "list1"],
      [text |-> << "a", ":", " ", "[" >>,               json |-> "error", yaml |-> "error"] }

DocOf(raw) == CHOOSE d \in Docs : d.text = raw

JSONparse(raw) == DocOf(raw).json

yamlLoad(raw) == DocOf(raw).yaml

JSONstringify(value) ==
    CASE value = "a1" -> << "{", "\"a\"", ":", "1", "}" >>
      [] value = "empty" -> << "{", "}" >>
      [] value = "list1" -> << "[", "1", "]" >>

StatusText(status) ==
    CASE status = 200 -> "OK"
      [] status = 404 -> "Not Found"
      [] status = 500 -> "Internal Server Error"

BodyChars == { " ", "x" }

RECURSIVE SeqsUpTo(_, _)
SeqsUpTo(S, n) ==
    IF n = 0 THEN { << >> }
    ELSE LET shorter == SeqsUpTo(S, n - 1)
         IN  shorter \cup { Append(s, c) : s \in shorter, c \in S }

Bodies == SeqsUpTo(BodyChars, MaxBodyLen)

Response(status, body) ==
    [status |-> status, statusText |-> StatusText(status), body |-> body]

NoResponse == [status |-> 0, statusText |-> "", body |-> << >>]

\* Response.ok of the fetch API
Ok(resp) == resp.status \in 200..299

UploadResponses == { Response(s, b) : s \in {200, 404, 500}, b \in Bodies }
SchemaResponses == { Response(s, << >>) : s \in {200, 404} }
DownloadResponses == { Response(s, << >>) : s \in {200, 404} }

NoPost == [url |-> << >>, method |-> "", contentType |-> "", authorization |-> << >>,
           body |-> << >>]

(***************************************************************************)
(* Initial state: the process has started, run() has not yet executed.     *)
(***************************************************************************)
Init ==
    /\ \E f \in FileValues, t \in TemplateValues, tk \in TokenValues,
          vs \in ValidateSchemaValues, o \in OverrideValues :
          env = MakeEnv([INPUT_FILE |-> f, INPUT_TEMPLATE |-> t,
                         INPUT_TEMPLATE_VALUES |-> o.values, INPUT_TOKEN |-> tk,
                         INPUT_VALIDATE_SCHEMA |-> vs, INPUT_SCHEMA_URL |-> o.schemaUrl,
                         INPUT_ENDPOINT |-> o.endpoint, INPUT_YTT_VERSION |-> o.version,
                         INPUT_YTT_ARGS |-> o.args])
    /\ entry \in EntryPoints
    /\ pc = "start"
    /\ ops = << >>
    /\ fileInput = << >> /\ templateInput = << >> /\ valuesInput = << >>
    /\ token = << >> /\ validate = FALSE /\ schemaUrl = << >>
    /\ yttVersion = << >> /\ yttArgs = << >>
    /\ yttExists = "unchecked"
    /\ platform = "unread" /\ arch = "unread"
    /\ yttBin = << >> /\ yttCmd = << >>
    /\ downloadUrl = << >>
    /\ rawContent = << >> /\ sourceHint = << >>
    /\ parsedAs = "none" /\ data = "none" /\ format = "none"
    /\ errors = << >>
    /\ validatorModule = "none"
    /\ schemaGetUrl = << >>
    /\ post = NoPost
    /\ downloadResp = NoResponse /\ schemaResp = NoResponse /\ uploadResp = NoResponse
    /\ resultText = << >>
    /\ stdoutLog = << >> /\ stderrLog = << >> /\ exitCode = 0

configVars == << fileInput, templateInput, valuesInput, token, validate, schemaUrl,
                 yttVersion, yttArgs >>
yttVars == << yttExists, platform, arch, yttBin, yttCmd, downloadUrl, downloadResp >>
docVars == << rawContent, sourceHint, parsedAs, data, format >>
netVars == << errors, validatorModule, schemaGetUrl, schemaResp, post, uploadResp,
              resultText >>

(***************************************************************************)
(* run().catch: the single place an error becomes a message and a status.  *)
(***************************************************************************)
\* Mutant: the handler logs the message and leaves process.exitCode alone.
Fail_NoExitCode(message) ==
    /\ pc' = "failed"
    /\ stderrLog' = Append(stderrLog, message)
    /\ exitCode' = exitCode

Fail(message) ==
    /\ pc' = "failed"
    /\ stderrLog' = Append(stderrLog, message)
    /\ exitCode' = 1

(***************************************************************************)
(* run(), lines 172-183: configuration read and the file/template check.   *)
(***************************************************************************)
\* Mutant: the negation of the file test is dropped.
NoSource_NegationDropped(templateIn, fileIn) == ~Truthy(templateIn) /\ Truthy(fileIn)

\* the test of run() line 181
NoSource(templateIn, fileIn) == ~Truthy(templateIn) /\ ~Truthy(fileIn)

ReadConfig ==
    /\ pc = "start"
    /\ ops' = Append(ops, "readConfig")
    /\ IF getInputThrows("token", TRUE)
       THEN /\ Fail(MissingInput("token"))
            /\ UNCHANGED configVars
       ELSE /\ fileInput' = getInput("file")
            /\ templateInput' = getInput("template")
            /\ valuesInput' = getInput("template_values")
            /\ token' = getInput("token")
            /\ validate' = parseBoolean(getInput("validate_schema"), TRUE)
            /\ schemaUrl' = (IF Truthy(getInput("schema_url"))
                             THEN getInput("schema_url") ELSE DefaultSchemaUrl)
            /\ yttVersion' = (IF Truthy(getInput("ytt_version"))
                              THEN getInput("ytt_version") ELSE DefaultYttVersion)
            /\ yttArgs' = getInput("ytt_args")
            /\ IF NoSource(getInput("template"), getInput("file"))
               THEN Fail(InputError)
               ELSE /\ pc' = "acquire"
                    /\ UNCHANGED << stderrLog, exitCode >>
    /\ UNCHANGED << env, entry, yttVars, docVars, netVars, stdoutLog >>

(***************************************************************************)
(* Tool Provisioner and Template Renderer.                                 *)
(***************************************************************************)
SupportedOs == { "darwin", "linux" }

ArchName(a) == CASE a = "x64" -> "amd64" [] a = "arm64" -> "arm64" [] OTHER -> "unsupported"

\* Mutant: the operating system is passed through without the check.
resolveYttAsset_AnyOs(version, p, a) ==
    IF ArchName(a) = "unsupported"
    THEN [error |-> << "Unsupported architecture for ytt: ", a >>, url |-> << >>,
          fileName |-> << >>]
    ELSE LET fileName == << "ytt-", p, "-", ArchName(a) >>
         IN  [error |-> << >>,
              url |-> << "https://github.com/carvel-dev/ytt/releases/download/" >>
                      \o version \o << "/" >> \o fileName,
              fileName |-> fileName]

\* resolveYttAsset(version), with the values os.platform() and os.arch() gave
resolveYttAsset(version, p, a) ==
    IF p \notin SupportedOs
    THEN [error |-> << "Unsupported OS for ytt: ", p >>, url |-> << >>, fileName |-> << >>]
    ELSE IF ArchName(a) = "unsupported"
    THEN [error |-> << "Unsupported architecture for ytt: ", a >>, url |-> << >>,
          fileName |-> << >>]
    ELSE LET fileName == << "ytt-", p, "-", ArchName(a) >>
         IN  [error |-> << >>,
              url |-> << "https://github.com/carvel-dev/ytt/releases/download/" >>
                      \o version \o << "/" >> \o fileName,
              fileName |-> fileName]

\* ensureYtt up to its first await: the working-directory shortcut, else the
\* asset resolution, the temporary directory and the download GET.
EnsureYtt ==
    /\ pc = "acquire"
    /\ Truthy(templateInput)
    /\ sourceHint' = fileInput
    /\ \E exists \in BOOLEAN :
         IF exists
         THEN /\ yttExists' = "yes"
              /\ ops' = Append(ops, "accessYtt")
              /\ yttBin' = << "<cwd>/", "ytt" >>
              /\ pc' = "render"
              /\ UNCHANGED << platform, arch, downloadUrl, stderrLog, exitCode >>
         ELSE \E p \in Platforms, a \in Archs :
                LET asset == resolveYttAsset(yttVersion, p, a) IN
                /\ yttExists' = "no"
                /\ platform' = p
                /\ arch' = a
                /\ IF asset.error # << >>
                   THEN /\ ops' = Append(ops, "accessYtt")
                        /\ Fail(asset.error)
                        /\ UNCHANGED << yttBin, downloadUrl >>
                   ELSE /\ ops' = ops \o << "accessYtt", "mkdtemp", "downloadGET" >>
                        /\ downloadUrl' = asset.url
                        /\ pc' = "download"
                        /\ UNCHANGED << yttBin, stderrLog, exitCode >>
    /\ UNCHANGED << env, entry, configVars, yttCmd, downloadResp, rawContent, parsedAs,
                    data, format, netVars, stdoutLog >>

DownloadFailed(resp) ==
    << "Failed to download ytt: ", ToString(resp.status), " ", resp.statusText >>

\* ensureYtt after the download GET has answered
DownloadResponse ==
    /\ pc = "download"
    /\ \E resp \in DownloadResponses :
         /\ downloadResp' = resp
         /\ IF ~Ok(resp)
            THEN /\ Fail(DownloadFailed(resp))
                 /\ UNCHANGED << ops, yttBin >>
            ELSE /\ ops' = ops \o << "writeFile", "chmod" >>
                 /\ yttBin' = << "<tmp>/apim-ytt-/" >>
                              \o resolveYttAsset(yttVersion, platform, arch).fileName
                 /\ pc' = "render"
                 /\ UNCHANGED << stderrLog, exitCode >>
    /\ UNCHANGED << env, entry, configVars, yttExists, platform, arch, yttCmd,
                    downloadUrl, docVars, netVars, stdoutLog >>

YttArguments(templatePath, valuesPath, args) ==
    << << "-", "f" >>, templatePath >>
    \o (IF Truthy(valuesPath) THEN << << "-", "f" >>, valuesPath >> ELSE << >>)
    \o (IF Truthy(args) THEN DropBlank(SplitOnSpace(args, << >>)) ELSE << >>)

RenderStderr == { << >>, << " ", "w", "\n" >> }

\* renderWithYtt from the subprocess call on, and run() line 190
RenderWithYtt ==
    /\ pc = "render"
    /\ ops' = Append(ops, "execYtt")
    /\ yttCmd' = << yttBin >> \o YttArguments(templateInput, valuesInput, yttArgs)
    /\ \/ /\ Fail(<< "Command failed: " >> \o yttBin)
          /\ UNCHANGED << rawContent, sourceHint, stdoutLog >>
       \/ \E d \in Docs, stderr \in RenderStderr :
            /\ stdoutLog' = (IF Truthy(stderr) /\ Trim(stderr) # << >>
                             THEN Append(stdoutLog, Trim(stderr)) ELSE stdoutLog)
            /\ rawContent' = d.text
            /\ sourceHint' = templateInput
            /\ pc' = "parse"
            /\ UNCHANGED << stderrLog, exitCode >>
    /\ UNCHANGED << env, entry, configVars, yttExists, platform, arch, yttBin,
                    downloadUrl, downloadResp, parsedAs, data, format, netVars >>

(***************************************************************************)
(* run() lines 186 and 192: the document is read from the file path.       *)
(***************************************************************************)
\* Mutant: the file is read whenever a file is configured.
AcquireFromFile_IfFileSet == Truthy(fileInput)

\* the else branch of run() line 188
AcquireFromFile == ~Truthy(templateInput)

ReadFile ==
    /\ pc = "acquire"
    /\ AcquireFromFile
    /\ ops' = Append(ops, "readFile")
    /\ sourceHint' = fileInput
    /\ \/ /\ Fail(<< "ENOENT: no such file or directory, open " >> \o fileInput)
          /\ UNCHANGED rawContent
       \/ \E d \in Docs :
            /\ rawContent' = d.text
            /\ pc' = "parse"
            /\ UNCHANGED << stderrLog, exitCode >>
    /\ UNCHANGED << env, entry, configVars, yttVars, parsedAs, data, format, netVars,
                    stdoutLog >>

(***************************************************************************)
(* Document Loader.                                                        *)
(***************************************************************************)
\* what a call of ensureModule does: require succeeds, or a temporary
\* directory and an npm install that succeeds or fails
EnsureModuleOutcomes == { "required", "installed", "installFailed" }

ensureModuleOps(outcome) ==
    IF outcome = "required" THEN << >> ELSE << "mkdtemp", "npmInstall" >>

InstallFailed(moduleName) == << "Command failed: npm install ", moduleName >>

\* Mutant: only the hint decides.
IsJson_HintOnly(raw, fileHint) == Truthy(fileHint) /\ EndsWith(fileHint, DotJson)

IsJson(raw, fileHint) ==
    (Truthy(fileHint) /\ EndsWith(fileHint, DotJson)) \/ StartsWith(Trim(raw), << "{" >>)

\* loadDocument, and the branch of run() line 197 on its result
LoadDocument ==
    /\ pc = "parse"
    /\ parsedAs' = (IF IsJson(rawContent, sourceHint) THEN "json" ELSE "yaml")
    /\ IF IsJson(rawContent, sourceHint)
       THEN /\ ops' = Append(ops, "parse")
            /\ IF JSONparse(rawContent) = "error"
               THEN /\ Fail(<< "Unexpected token in JSON" >>)
                    /\ UNCHANGED << data, format >>
               ELSE /\ data' = JSONparse(rawContent)
                    /\ format' = "json"
                    /\ pc' = (IF validate THEN "validate" ELSE "upload")
                    /\ UNCHANGED << stderrLog, exitCode >>
       ELSE \E outcome \in EnsureModuleOutcomes :
              IF outcome = "installFailed"
              THEN /\ ops' = ops \o ensureModuleOps(outcome)
                   /\ Fail(InstallFailed("js-yaml@4.1.0"))
                   /\ UNCHANGED << data, format >>
              ELSE /\ ops' = ops \o ensureModuleOps(outcome) \o << "parse" >>
                   /\ IF yamlLoad(rawContent) = "error"
                      THEN /\ Fail(<< "YAMLException" >>)
                           /\ UNCHANGED << data, format >>
                      ELSE /\ data' = yamlLoad(rawContent)
                           /\ format' = "yaml"
                           /\ pc' = (IF validate THEN "validate" ELSE "upload")
                           /\ UNCHANGED << stderrLog, exitCode >>
    /\ UNCHANGED << env, entry, configVars, yttVars, rawContent, sourceHint, netVars, stdoutLog >>

(***************************************************************************)
(* Schema Validator.                                                       *)
(***************************************************************************)
\* the package validateSchema builds its validator from, per entry point
AjvModule(file) ==
    CASE file = "src/index.js" -> "ajv@8.12.0"
      [] file = "dist/index.js" -> "ajv-draft-04@1.0.0"

\* the JSON Schema draft the package's default export implements
Dialect(module) ==
    CASE module = "ajv@8.12.0" -> "draft-07"
      [] module = "ajv-draft-04@1.0.0" -> "draft-04"
      [] OTHER -> "none"

AjvOptions == [allErrors |-> TRUE, strict |-> FALSE, formats |-> TRUE]

\* validateSchema up to its first await: the schema GET is issued
ValidateSchemaFetch ==
    /\ pc = "validate"
    /\ ops' = Append(ops, "schemaGET")
    /\ schemaGetUrl' = schemaUrl
    /\ pc' = "schemaResponse"
    /\ UNCHANGED << env, entry, configVars, yttVars, docVars, errors, validatorModule,
                    schemaResp, post, uploadResp, resultText, stdoutLog, stderrLog,
                    exitCode >>

SchemaFetchFailed(resp) ==
    << "Failed to fetch schema: ", ToString(resp.status), " ", resp.statusText >>

\* validate.errors as the validator reports them, all collected
Violations(n) == [i \in 1..n |-> << "violation ", ToString(i) >>]

\* ajv.errorsText(errors, { separator: "\n" })
RECURSIVE errorsText(_)
errorsText(errs) ==
    IF errs = << >> THEN << >>
    ELSE IF Len(errs) = 1 THEN Head(errs)
    ELSE Head(errs) \o << "\n" >> \o errorsText(Tail(errs))

ValidationFailed(errs) == << "Schema validation failed:\n" >> \o errorsText(errs)

\* Mutant: the result of validate(document) is ignored.
Valid_Always(errs) == TRUE

\* the result of validate(document)
Valid(errs) == errs = << >>

\* validateSchema after the schema GET has answered
SchemaResponse ==
    /\ pc = "schemaResponse"
    /\ \E resp \in SchemaResponses :
         /\ schemaResp' = resp
         /\ IF ~Ok(resp)
            THEN /\ Fail(SchemaFetchFailed(resp))
                 /\ UNCHANGED << ops, validatorModule, errors >>
            ELSE \/ /\ Fail(<< "Unexpected token in JSON" >>)       \* response.json()
                    /\ UNCHANGED << ops, validatorModule, errors >>
                 \/ \E ajvOutcome \in EnsureModuleOutcomes :
                      IF ajvOutcome = "installFailed"
                      THEN /\ ops' = ops \o ensureModuleOps(ajvOutcome)
                           /\ Fail(InstallFailed(AjvModule(entry)))
                           /\ UNCHANGED << validatorModule, errors >>
                      ELSE \E formatsOutcome \in EnsureModuleOutcomes :
                        IF formatsOutcome = "installFailed"
                        THEN /\ ops' = ops \o ensureModuleOps(ajvOutcome)
                                         \o ensureModuleOps(formatsOutcome)
                             /\ Fail(InstallFailed("ajv-formats@2.1.1"))
                             /\ UNCHANGED << validatorModule, errors >>
                        ELSE /\ validatorModule' = AjvModule(entry)
                             /\ \/ /\ ops' = ops \o ensureModuleOps(ajvOutcome)
                                              \o ensureModuleOps(formatsOutcome)
                                   /\ Fail(<< "schema is invalid" >>)  \* ajv.compile
                                   /\ UNCHANGED errors
                                \/ \E n \in 0..MaxViolations :
                                     /\ ops' = ops \o ensureModuleOps(ajvOutcome)
                                                \o ensureModuleOps(formatsOutcome)
                                                \o << "validate" >>
                                     /\ errors' = Violations(n)
                                     /\ IF ~Valid(Violations(n))
                                        THEN Fail(ValidationFailed(Violations(n)))
                                        ELSE /\ pc' = "upload"
                                             /\ UNCHANGED << stderrLog, exitCode >>
    /\ UNCHANGED << env, entry, configVars, yttVars, docVars, schemaGetUrl, post,
                    uploadResp, resultText, stdoutLog >>

(***************************************************************************)
(* Uploader.                                                               *)
(***************************************************************************)
\* uploadDocument up to its first await: the POST is issued
UploadPost ==
    /\ pc = "upload"
    /\ ops' = Append(ops, "uploadPOST")
    /\ post' = [url |-> DefaultEndpoint,
                method |-> "POST",
                contentType |-> "application/json",
                authorization |-> << "Bearer " >> \o token,
                body |-> JSONstringify(data)]
    /\ pc' = "uploadResponse"
    /\ UNCHANGED << env, entry, configVars, yttVars, docVars, errors, validatorModule,
                    schemaGetUrl, schemaResp, uploadResp, resultText, stdoutLog,
                    stderrLog, exitCode >>

\* Mutant: the response body is left out of the message.
UploadFailed_NoBody(resp) ==
    << "Upload failed: ", ToString(resp.status), " ", resp.statusText >>

UploadFailed(resp) ==
    << "Upload failed: ", ToString(resp.status), " ", resp.statusText, "\n" >> \o resp.body

\* uploadDocument after the POST has answered, and run() lines 201-206
UploadResponse ==
    /\ pc = "uploadResponse"
    /\ \E resp \in UploadResponses :
         /\ uploadResp' = resp
         /\ IF ~Ok(resp)
            THEN /\ Fail(UploadFailed(resp))
                 /\ UNCHANGED << resultText, stdoutLog >>
            ELSE /\ resultText' = resp.body
                 /\ stdoutLog' = Append(stdoutLog,
                                        IF Truthy(resp.body) /\ Trim(resp.body) # << >>
                                        THEN Trim(resp.body)
                                        ELSE << "Upload complete." >>)
                 /\ pc' = "done"
                 /\ UNCHANGED << stderrLog, exitCode >>
    /\ UNCHANGED << env, entry, configVars, yttVars, docVars, errors, validatorModule,
                    schemaGetUrl, schemaResp, post, ops >>

Next ==
    \/ ReadConfig
    \/ EnsureYtt
    \/ DownloadResponse
    \/ RenderWithYtt
    \/ ReadFile
    \/ LoadDocument
    \/ ValidateSchemaFetch
    \/ SchemaResponse
    \/ UploadPost
    \/ UploadResponse

Spec == Init /\ [][Next]_vars

(***************************************************************************)
(* Properties.                                                             *)
(***************************************************************************)
Has(op) == \E i \in DOMAIN ops : ops[i] = op

Pos(op) == CHOOSE i \in DOMAIN ops : ops[i] = op /\ \A j \in 1..(i - 1) : ops[j] # op

Terminal == pc \in { "done", "failed" }

TokenBlank ==
    \/ "INPUT_TOKEN" \notin DOMAIN env
    \/ \A i \in DOMAIN env["INPUT_TOKEN"] : env["INPUT_TOKEN"][i] \in { " ", "\n", "\t" }

Configured(key) == key \in DOMAIN env /\ Len(env[key]) > 0

Received(resp) == resp # NoResponse

\* C1: when validation is enabled the validator has run, and passed, before the
\* upload POST is issued; a schema fetch that is not ok, or any violation,
\* means the upload POST is never issued.
C1_ValidationGatesUpload ==
    /\ (validate /\ Has("uploadPOST")) =>
          /\ Has("schemaGET") /\ Has("validate")
          /\ Pos("schemaGET") < Pos("validate")
          /\ Pos("validate") < Pos("uploadPOST")
          /\ Received(schemaResp) /\ schemaResp.status \in 200..299
          /\ errors = << >>
    /\ (Received(schemaResp) /\ schemaResp.status \notin 200..299) => ~Has("uploadPOST")
    /\ Len(errors) > 0 => ~Has("uploadPOST")

C1_Witness == validate /\ Has("validate") /\ Len(errors) > 0 /\ pc = "failed"

\* every step of the pipeline succeeded, read off the recorded outcomes
AllStepsSucceeded ==
    /\ ~TokenBlank
    /\ Configured("INPUT_FILE") \/ Configured("INPUT_TEMPLATE")
    /\ Has("readFile") \/ Has("execYtt")
    /\ Len(rawContent) > 0
    /\ Has("parse") /\ data # "none"
    /\ validate => (Has("validate") /\ errors = << >>)
    /\ Has("uploadPOST") /\ Received(uploadResp) /\ uploadResp.status \in 200..299

\* a step has failed, read off the recorded outcomes
SomeStepFailed ==
    \/ pc # "start" /\ TokenBlank
    \/ pc # "start" /\ ~Configured("INPUT_FILE") /\ ~Configured("INPUT_TEMPLATE")
    \/ platform \notin { "unread", "darwin", "linux" }
    \/ arch \notin { "unread", "x64", "arm64" }
    \/ Received(downloadResp) /\ downloadResp.status \notin 200..299
    \/ Has("parse") /\ data = "none"
    \/ Received(schemaResp) /\ schemaResp.status \notin 200..299
    \/ Len(errors) > 0
    \/ Received(uploadResp) /\ uploadResp.status \notin 200..299

\* C2: the exit status is 0 exactly when every step succeeded; a failed step
\* puts the run in the Failed state with the message on the diagnostic stream
\* and a non-zero exit status, and nothing runs after that.
C2_ExitStatus ==
    /\ Terminal => (exitCode = 0 <=> AllStepsSucceeded)
    /\ SomeStepFailed => pc = "failed"
    /\ pc = "failed" => /\ exitCode # 0
                        /\ Len(stderrLog) = 1
                        /\ Len(stderrLog[1]) > 0
                        /\ ~ENABLED Next
    /\ pc # "failed" => exitCode = 0 /\ stderrLog = << >>

C2_Witness == pc = "failed" /\ Has("uploadPOST") /\ uploadResp.status = 500

\* C3: the upload POST goes to the URL of the `endpoint` input, and to the
\* default URL only when that input is absent.
C3_EndpointInputUsed ==
    Has("uploadPOST") =>
        post.url = (IF Configured("INPUT_ENDPOINT") THEN env["INPUT_ENDPOINT"]
                    ELSE << "https://client.apimetrics.io/api/2/import" >>)

NeitherConfigured == ~Configured("INPUT_FILE") /\ ~Configured("INPUT_TEMPLATE")

\* C4 as stated: with neither `file` nor `template` configured every run fails
\* with the InputError message and performs no external operation.
C4_AlwaysInputError ==
    (pc # "start" /\ NeitherConfigured) =>
        /\ pc = "failed"
        /\ stderrLog = << << "Provide either 'file' or 'template'." >> >>
        /\ ops = << "readConfig" >>

\* C4 as amended: with neither `file` nor `template` configured the run fails
\* at the configuration read with no network call, file read or subprocess;
\* the message is the InputError message when the token is present and
\* non-blank, and the missing-token message otherwise.
C4_NoSourceFails ==
    (pc # "start" /\ NeitherConfigured) =>
        /\ pc = "failed"
        /\ exitCode # 0
        /\ ops = << "readConfig" >>
        /\ ~ENABLED Next
        /\ stderrLog = << IF TokenBlank
                          THEN << "Missing required input: ", "token" >>
                          ELSE << "Provide either 'file' or 'template'." >> >>

C4_Witness ==
    /\ pc = "failed" /\ NeitherConfigured /\ ~TokenBlank
    /\ stderrLog = << << "Provide either 'file' or 'template'." >> >>

\* C5: with no ytt file in the working directory an unsupported operating
\* system or architecture fails ensureYtt with the unsupported-platform error
\* before any temporary directory or network call; with a ytt file there, its
\* absolute path is returned with no platform resolution and no download.
C5_EnsureYtt ==
    /\ (yttExists = "no" /\ (platform \notin { "darwin", "linux" }
                              \/ arch \notin { "x64", "arm64" })) =>
          /\ pc = "failed"
          /\ Len(stderrLog) = 1
          /\ stderrLog[1] \in { << "Unsupported OS for ytt: ", platform >>,
                                << "Unsupported architecture for ytt: ", arch >> }
          /\ \A op \in { "mkdtemp", "downloadGET", "writeFile", "chmod", "execYtt",
                         "npmInstall", "schemaGET", "uploadPOST" } : ~Has(op)
    /\ yttExists = "yes" =>
          /\ platform = "unread" /\ arch = "unread"
          /\ downloadUrl = << >> /\ ~Received(downloadResp)
          /\ ~Has("downloadGET") /\ ~Has("writeFile")
          /\ yttBin = << "<cwd>/", "ytt" >>
          /\ Has("execYtt") => Head(yttCmd) = << "<cwd>/", "ytt" >>

C5_Witness ==
    /\ Configured("INPUT_TEMPLATE") /\ yttExists = "no" /\ platform = "win32"
    /\ pc = "failed"

\* the text that run() prints for a successful upload with this body
SuccessOutput(body) ==
    IF \A i \in DOMAIN body : body[i] \in { " ", "\n", "\t" }
    THEN << "Upload complete." >> ELSE Trim(body)

\* C6: a non-success response to the upload POST fails the run with a message
\* that holds the status code, the status text and the whole body, with a
\* non-zero exit and no success output; a success response returns the body
\* text unmodified, the empty body included.
C6_UploadOutcome ==
    Received(uploadResp) =>
        IF uploadResp.status \in 200..299
        THEN /\ pc = "done"
             /\ resultText = uploadResp.body
             /\ exitCode = 0
        ELSE /\ pc = "failed"
             /\ exitCode # 0
             /\ resultText = << >>
             /\ \A i \in DOMAIN stdoutLog : stdoutLog[i] # SuccessOutput(uploadResp.body)
             /\ Len(stderrLog) = 1
             /\ \E k \in 0..Len(stderrLog[1]) :
                  LET m == stderrLog[1]
                      statusLine == SubSeq(m, 1, k)
                  IN  /\ Contains(statusLine, << ToString(uploadResp.status) >>)
                      /\ Contains(statusLine, << uploadResp.statusText >>)
                      /\ SubSeq(m, k + 1, Len(m)) = uploadResp.body

C6_Witness ==
    /\ Received(uploadResp) /\ uploadResp.status = 500 /\ uploadResp.body = << "x" >>
    /\ pc = "failed"

\* C7: validateSchema compiles the schema with a Draft-04 validator with
\* allErrors on, strict off and the formats added, the same in both copies.
C7_Draft04InBothCopies ==
    validatorModule # "none" =>
        /\ Dialect(validatorModule) = "draft-04"
        /\ AjvOptions = [allErrors |-> TRUE, strict |-> FALSE, formats |-> TRUE]
        /\ AjvModule("src/index.js") = AjvModule("dist/index.js")

UpperChar(c) ==
    CASE c = "t" -> "T" [] c = "r" -> "R" [] c = "u" -> "U" [] c = "e" -> "E"
      [] c = "y" -> "Y" [] c = "s" -> "S" [] c = "o" -> "O" [] c = "n" -> "N"
      [] OTHER -> c

MatchesIgnoringCase(v, literal) ==
    /\ Len(v) = Len(literal)
    /\ \A i \in DOMAIN v : v[i] \in { literal[i], UpperChar(literal[i]) }

\* validate_schema is absent, empty, or one of 1, true, yes, on in any case
ValidationRequested ==
    \/ ~Configured("INPUT_VALIDATE_SCHEMA")
    \/ \E literal \in { << "1" >>, << "t", "r", "u", "e" >>, << "y", "e", "s" >>,
                        << "o", "n" >> } :
         MatchesIgnoringCase(env["INPUT_VALIDATE_SCHEMA"], literal)

\* C8 as stated: a run issues the schema GET if and only if validate_schema
\* is absent, empty, or one of 1, true, yes, on in any case.
C8_GetIffRequested ==
    Terminal => (Has("schemaGET") <=> ValidationRequested)

\* C8 as amended: the schema GET is issued only if validation is requested,
\* and in a run whose configuration read, acquisition and parse succeeded it
\* is issued exactly if validation is requested; any other non-empty value
\* makes parseBoolean false, and the run goes from parse straight to upload
\* with no schema fetch and no validator.
C8_GetIffRequestedOnceParsed ==
    /\ Has("schemaGET") => ValidationRequested
    /\ (pc # "start" /\ ~TokenBlank) => (validate <=> ValidationRequested)
    /\ (data # "none" /\ pc # "validate") => (Has("schemaGET") <=> ValidationRequested)
    /\ (~ValidationRequested /\ Has("uploadPOST")) =>
          /\ ~Has("schemaGET") /\ ~Has("validate")
          /\ ~Received(schemaResp) /\ validatorModule = "none"
          /\ ops[Pos("uploadPOST") - 1] = "parse"

C8_Witness ==
    /\ Configured("INPUT_VALIDATE_SCHEMA")
    /\ env["INPUT_VALIDATE_SCHEMA"] = << " ", "t", "r", "u", "e" >>
    /\ Has("uploadPOST")

HintEndsInDotJson(h) ==
    /\ Len(h) >= 5
    /\ h[Len(h) - 4] = "." /\ h[Len(h) - 3] = "j" /\ h[Len(h) - 2] = "s"
    /\ h[Len(h) - 1] = "o" /\ h[Len(h)] = "n"

FirstVisibleIsBrace(raw) ==
    \E i \in DOMAIN raw :
        /\ raw[i] = "{"
        /\ \A j \in 1..(i - 1) : raw[j] \in { " ", "\n", "\t" }

\* C9: loadDocument parses as JSON exactly when the hint ends in `.json` or
\* the trimmed text begins with `{`, and as YAML otherwise; JSON text that
\* does not parse fails the run; the hint is the template path when a
\* template is configured and the file path otherwise.
C9_FormatDetection ==
    parsedAs # "none" =>
        /\ sourceHint = (IF Configured("INPUT_TEMPLATE") THEN env["INPUT_TEMPLATE"]
                         ELSE env["INPUT_FILE"])
        /\ parsedAs = (IF HintEndsInDotJson(sourceHint) \/ FirstVisibleIsBrace(rawContent)
                       THEN "json" ELSE "yaml")
        /\ (parsedAs = "json" /\ DocOf(rawContent).json = "error") =>
               (pc = "failed" /\ data = "none")
        /\ data # "none" =>
               /\ format = parsedAs
               /\ data = (IF parsedAs = "json" THEN DocOf(rawContent).json
                          ELSE DocOf(rawContent).yaml)

C9_Witness ==
    /\ parsedAs = "json" /\ HintEndsInDotJson(sourceHint)
    /\ ~FirstVisibleIsBrace(rawContent)
    /\ DocOf(rawContent).json = "error" /\ pc = "failed"

\* the place of an operation in the pipeline; 0 for the temporary directories
\* and installs that module loading may add at several places
Stage(op) ==
    CASE op = "readConfig" -> 1
      [] op = "accessYtt" -> 2
      [] op = "downloadGET" -> 3
      [] op = "writeFile" -> 4
      [] op = "chmod" -> 5
      [] op \in { "execYtt", "readFile" } -> 6
      [] op = "parse" -> 7
      [] op = "schemaGET" -> 8
      [] op = "validate" -> 9
      [] op = "uploadPOST" -> 10
      [] OTHER -> 0

\* C10: the operations of a run occur in the fixed order configuration read,
\* acquisition (render, and then no file read, or one file read), parse,
\* schema GET and validation, upload POST last; each at most once, each after
\* the previous one completed, none after a failure.
C10_FixedOrder ==
    /\ \A i, j \in DOMAIN ops :
          (i < j /\ Stage(ops[i]) > 0 /\ Stage(ops[j]) > 0) => Stage(ops[i]) < Stage(ops[j])
    /\ pc # "start" => ops[1] = "readConfig"
    /\ Configured("INPUT_TEMPLATE") => ~Has("readFile")
    /\ Has("parse") => (Has("readFile") \/ Has("execYtt"))
    /\ Has("schemaGET") => Has("parse")
    /\ Has("uploadPOST") => (Has("parse") /\ ops[Len(ops)] = "uploadPOST")
    /\ (Has("downloadGET") /\ Has("execYtt")) => Received(downloadResp)
    /\ (Has("schemaGET") /\ Has("uploadPOST")) => Received(schemaResp)
    /\ Terminal => ~ENABLED Next

C10_Witness ==
    /\ pc = "done" /\ Configured("INPUT_FILE") /\ Configured("INPUT_TEMPLATE")
    /\ Has("downloadGET") /\ Has("execYtt") /\ Has("schemaGET") /\ Has("uploadPOST")

====
